---- MODULE Spec2Model ----
(***************************************************************************)
(* Model of exchange/pki/models.py: the encrypted password field           *)
(* (EncryptedFieldMixin), the SslConfig validator and the                  *)
(* HostnamePortSslConfig binding store with its upsert manager method.     *)
(*                                                                         *)
(* Text is a sequence of one-character strings.  Python values that may    *)
(* be None or of another type are tagged records (PyNone, PyStr, PyInt).   *)
(***************************************************************************)
EXTENDS Integers, Sequences, FiniteSets, TLC

VARIABLES
    records,    \* table pki_sslconfig: record id -> row, or NoRow
    bindings,   \* table pki_hostnameportsslconfig: sequence of rows
    ret,        \* outcome of the last completed handler
    pc,         \* position of each concurrent upsert caller
    req,        \* arguments and fetched instance of each concurrent caller
    cval,       \* value handed to the encrypted field's conversions
    cres,       \* what the conversion produced
    cand,       \* candidate SslConfig handed to clean()
    verdict     \* what clean() produced

vars == <<records, bindings, ret, pc, req, cval, cres, cand, verdict>>

(***************************************************************************)
(* Bounds of the model.                                                    *)
(***************************************************************************)
MaxLen == 4          \* longest secret enumerated character by character
MaxOptLex == 4       \* longest ssl_options text, in lexemes
MaxRecords == 2      \* SslConfig rows that may exist at once

(***************************************************************************)
(* Text helpers.                                                           *)
(***************************************************************************)
Chars == {"_", "a", "g"}

Texts(n) == UNION {[1..k -> Chars] : k \in 0..n}

StartsWith(s, p) == Len(s) >= Len(p) /\ SubSeq(s, 1, Len(p)) = p

DropPrefix(s, p) == SubSeq(s, Len(p) + 1, Len(s))

Rep(c, n) == [i \in 1..n |-> c]

PyNone == [t |-> "none"]

PyStr(s) == [t |-> "str", s |-> s]

PyInt(n) == [t |-> "int", n |-> n]

(***************************************************************************)
(* Secret codec (exchange/pki/crypto.py, not part of the sources at hand). *)
(* A token is "g" followed by the letter-substituted plaintext; text that  *)
(* does not start with "g" is no product of the codec, empty text is not   *)
(* decryptable at all.                                                     *)
(***************************************************************************)
Sub(c) == CASE c = "_" -> "a" [] c = "a" -> "g" [] OTHER -> "_"

UnSub(c) == CASE c = "a" -> "_" [] c = "g" -> "a" [] OTHER -> "g"

Encrypt(s) == <<"g">> \o [i \in 1..Len(s) |-> Sub(s[i])]

Decrypt(tok) ==
    IF Len(tok) = 0 THEN [ok |-> FALSE, exc |-> "TypeError"]
    ELSE IF tok[1] # "g" THEN [ok |-> FALSE, exc |-> "CryptoInvalidToken"]
    ELSE [ok |-> TRUE, v |-> [i \in 1..(Len(tok) - 1) |-> UnSub(tok[i + 1])]]

(***************************************************************************)
(* EncryptedFieldMixin / EncryptedCharField.                               *)
(***************************************************************************)
prefix == <<"_", "_", "_">>

enforce_max_length == FALSE

max_length == 255

\* models.CharField.to_python, reached through super(): text and None pass,
\* anything else is turned into text.
CharField_to_python(value) ==
    IF value.t \in {"str", "none"} THEN value ELSE PyStr(<<"?">>)

\* to_python that, when decryption fails, gives back the text with its marker.
to_python_keeps_marker(value) ==
    IF value.t # "str" THEN value
    ELSE IF StartsWith(value.s, prefix)
         THEN LET d == Decrypt(DropPrefix(value.s, prefix))
              IN  CharField_to_python(PyStr(IF d.ok THEN d.v ELSE value.s))
         ELSE CharField_to_python(value)

to_python(value) ==
    IF value.t # "str" THEN value
    ELSE IF StartsWith(value.s, prefix)
         THEN LET stripped == DropPrefix(value.s, prefix)
                  d == Decrypt(stripped)
              IN  CharField_to_python(PyStr(IF d.ok THEN d.v ELSE stripped))
         ELSE CharField_to_python(value)

\* models.CharField.get_prep_value, reached through super(): it converts the
\* value with self.to_python, which on this class is the mixin's to_python.
CharField_get_prep_value(value) == to_python(value)

get_prep_value(value) ==
    LET v == CharField_get_prep_value(value)
    IN  IF v = PyNone \/ v = PyStr(<<>>) THEN v
        ELSE PyStr(prefix \o Encrypt(v.s))

get_db_prep_value(value, prepared) ==
    IF prepared THEN [ok |-> TRUE, v |-> value]
    ELSE LET v == get_prep_value(value)
         IN  IF enforce_max_length /\ v.t = "str" /\ Len(v.s) > max_length
             THEN [ok |-> FALSE, exc |-> "ValueError"]
             ELSE [ok |-> TRUE, v |-> v]

from_db_value(value) == to_python(value)

(***************************************************************************)
(* SslConfig: the validator.  ssl_options is text made of lexemes: option  *)
(* names, "," and " ".  Paths are names looked up in a fixed filesystem.   *)
(***************************************************************************)
OptNames == {"OP_NO_SSLv2", "OP_BOGUS"}

OptLexemes == OptNames \cup {",", " "}

OptTexts(n) == UNION {[1..k -> OptLexemes] : k \in 0..n}

\* SslConfig.ssl_op_opts(): the OP_* names the ssl module has at run time.
ssl_op_opts == {"OP_ALL", "OP_NO_COMPRESSION", "OP_NO_SSLv2", "OP_NO_SSLv3"}

PathExists == {"/pki/ok.pem", "/pki"}

PathIsFile == {"/pki/ok.pem"}

PathAccessR == {"/pki/ok.pem", "/pki"}

Paths == {"", "/pki/ok.pem", "/pki", "/pki/gone.pem"}

_file_readable(a_file) ==
    a_file \in PathExists /\ a_file \in PathIsFile /\ a_file \in PathAccessR

PassLimit == 100

\* str.replace(' ', '')
RemoveSpaces(s) == SelectSeq(s, LAMBDA c : c # " ")

\* str.split(','): the pieces between commas, each a run of names.
RECURSIVE SplitComma(_)
SplitComma(s) ==
    IF \A i \in 1..Len(s) : s[i] # ","
    THEN <<s>>
    ELSE LET i == CHOOSE k \in 1..Len(s) :
                      s[k] = "," /\ \A j \in 1..(k - 1) : s[j] # ","
         IN  <<SubSeq(s, 1, i - 1)>> \o SplitComma(SubSeq(s, i + 1, Len(s)))

\* opt in self.ssl_op_opts(): a piece is a known option when it is one name
\* and the ssl module has it.
KnownOpt(opt) == Len(opt) = 1 /\ opt[1] \in ssl_op_opts

Put(m, k, v) == [x \in (DOMAIN m) \cup {k} |-> IF x = k THEN v ELSE m[x]]

NoMsgs == <<>>

MsgOptions(invalid) ==
    [text |-> "Options {0} not in ssl module options: [{1}]", arg |-> invalid]

MsgFile(f) ==
    [text |-> "File does not exist or not readable at: {0}", arg |-> <<f>>]

MsgKey == [text |-> "Client key must be defined if client cert is.", arg |-> <<>>]

MsgCert == [text |-> "Client cert must be defined if client key is.", arg |-> <<>>]

MsgPass == [text |-> "Client key password limited to 100 characters.", arg |-> <<>>]

Raise(val_mgs) ==
    IF DOMAIN val_mgs = {} THEN [ok |-> TRUE, errors |-> NoMsgs]
    ELSE [ok |-> FALSE, errors |-> val_mgs]

\* The fail-fast variant: raise at the first rule that is violated.
clean_fail_fast(r) ==
    LET invalid == SelectSeq(SplitComma(RemoveSpaces(r.ssl_options)),
                             LAMBDA opt : opt # <<>> /\ ~KnownOpt(opt))
        badFiles == {a \in {"ca_custom_certs", "client_cert", "client_key"} :
                        r[a] # "" /\ ~_file_readable(r[a])}
    IN  IF r.ssl_options # <<>> /\ invalid # <<>>
        THEN Raise(Put(NoMsgs, "ssl_options", MsgOptions(invalid)))
        ELSE IF badFiles # {}
        THEN LET a == CHOOSE x \in badFiles : TRUE
             IN  Raise(Put(NoMsgs, a, MsgFile(r[a])))
        ELSE IF r.client_cert # "" /\ r.client_key = ""
        THEN Raise(Put(NoMsgs, "client_key", MsgKey))
        ELSE IF r.client_key # "" /\ r.client_cert = ""
        THEN Raise(Put(NoMsgs, "client_cert", MsgCert))
        ELSE IF r.client_key_pass # <<>> /\ Len(r.client_key_pass) > PassLimit
        THEN Raise(Put(NoMsgs, "client_key_pass", MsgPass))
        ELSE Raise(NoMsgs)

\* SslConfig.clean(): every rule is applied in turn and writes its message
\* into val_mgs under the field's name.
clean(r) ==
    LET invalid == SelectSeq(SplitComma(RemoveSpaces(r.ssl_options)),
                             LAMBDA opt : opt # <<>> /\ ~KnownOpt(opt))
        m1 == IF r.ssl_options # <<>> /\ invalid # <<>>
              THEN Put(NoMsgs, "ssl_options", MsgOptions(invalid))
              ELSE NoMsgs
        File(m, attr) == IF r[attr] # "" /\ ~_file_readable(r[attr])
                         THEN Put(m, attr, MsgFile(r[attr]))
                         ELSE m
        m2 == File(File(File(m1, "ca_custom_certs"), "client_cert"), "client_key")
        m3 == IF r.client_cert # "" /\ r.client_key = ""
              THEN Put(m2, "client_key", MsgKey) ELSE m2
        m4 == IF r.client_key # "" /\ r.client_cert = ""
              THEN Put(m3, "client_cert", MsgCert) ELSE m3
        m5 == IF r.client_key_pass # <<>> /\ Len(r.client_key_pass) > PassLimit
              THEN Put(m4, "client_key_pass", MsgPass) ELSE m4
    IN  Raise(m5)

PyList(items) == [t |-> "list", v |-> items]

\* value or None
OrNone(text) == IF text = "" THEN PyNone ELSE PyStr(text)

\* str(o): the option texts are ASCII, on which str() gives the same text.
Str(o) == o

\* to_ssl_config whose options list, when nothing is left in it, becomes None
\* like the other unset fields.
to_ssl_config_or_none(r) ==
    LET ssl_opts == IF r.ssl_options # <<>>
                    THEN PyList(SplitComma(RemoveSpaces(r.ssl_options)))
                    ELSE PyNone
        kept == IF ssl_opts.t = "list"
                THEN SelectSeq(ssl_opts.v, LAMBDA o : KnownOpt(Str(o)))
                ELSE <<>>
    IN  [ca_custom_certs |-> OrNone(r.ca_custom_certs),
         client_cert |-> OrNone(r.client_cert),
         client_key |-> OrNone(r.client_key),
         client_key_pass |-> IF r.client_key_pass = <<>> THEN PyNone
                             ELSE PyStr(r.client_key_pass),
         ssl_options |-> IF kept # <<>> THEN PyList(kept) ELSE PyNone]

\* SslConfig.to_ssl_config(): the keys that come from the fields of the row.
\* ssl_opts is None for an empty options text and otherwise the list of the
\* pieces between commas, which is never an empty list.
to_ssl_config(r) ==
    LET ssl_opts == IF r.ssl_options # <<>>
                    THEN PyList(SplitComma(RemoveSpaces(r.ssl_options)))
                    ELSE PyNone
    IN  [ca_custom_certs |-> OrNone(r.ca_custom_certs),
         client_cert |-> OrNone(r.client_cert),
         client_key |-> OrNone(r.client_key),
         client_key_pass |-> IF r.client_key_pass = <<>> THEN PyNone
                             ELSE PyStr(r.client_key_pass),
         ssl_options |-> IF ssl_opts.t = "list" /\ ssl_opts.v # <<>>
                         THEN PyList(SelectSeq(ssl_opts.v,
                                               LAMBDA o : KnownOpt(Str(o))))
                         ELSE PyNone]

SslConfigRow(opts, ca, cert, key, pass) ==
    [ssl_options |-> opts, ca_custom_certs |-> ca, client_cert |-> cert,
     client_key |-> key, client_key_pass |-> pass]

(***************************************************************************)
(* The conversions of the encrypted field, applied to one value at a time. *)
(***************************************************************************)
LongPass == Rep("a", PassLimit)

TooLongPass == Rep("a", PassLimit + 1)

Secrets == Texts(MaxLen) \cup {LongPass}

FieldValues ==
    {PyStr(s) : s \in Texts(MaxLen + 2)} \cup {PyNone, PyInt(7)}

NoRow == [t |-> "norow"]

InitStoreIdle ==
    /\ records = [i \in 1..MaxRecords |-> NoRow]
    /\ bindings = <<>>
    /\ ret = [op |-> "none"]

InitCallersIdle ==
    /\ pc = [p \in {1, 2} |-> "idle"]
    /\ req = [p \in {1, 2} |-> [t |-> "none"]]

InitCodecIdle ==
    /\ cval = PyNone
    /\ cres = [op |-> "none"]

InitValidatorIdle ==
    /\ cand = SslConfigRow(<<>>, "", "", "", <<>>)
    /\ verdict = [op |-> "none"]

InitCodec ==
    /\ InitStoreIdle /\ InitCallersIdle /\ InitValidatorIdle
    /\ cval \in FieldValues \cup {PyStr(LongPass)}
    /\ cres = [op |-> "none"]

\* A value is written to the column and the column is read back.
CodecStore ==
    /\ cres.op = "none"
    /\ cval.t \in {"str", "none"}
    /\ cval.t = "str" => cval.s \in Secrets
    /\ LET w == get_db_prep_value(cval, FALSE)
       IN  cres' = [op |-> "store", raised |-> ~w.ok,
                    stored |-> IF w.ok THEN w.v ELSE PyNone,
                    loaded |-> IF w.ok THEN from_db_value(w.v) ELSE PyNone]
    /\ UNCHANGED <<records, bindings, ret, pc, req, cval, cand, verdict>>

\* A column value, whatever it holds, is read.
CodecLoad ==
    /\ cres.op = "none"
    /\ cres' = [op |-> "load", loaded |-> from_db_value(cval)]
    /\ UNCHANGED <<records, bindings, ret, pc, req, cval, cand, verdict>>

\* The value that was read goes through the conversion once more, as when a
\* loaded instance is cleaned (clean_fields) or prepared for the next save.
CodecReload ==
    /\ cres.op = "load"
    /\ cres' = [op |-> "reload", loaded |-> cres.loaded,
                again |-> to_python(cres.loaded)]
    /\ UNCHANGED <<records, bindings, ret, pc, req, cval, cand, verdict>>

NextCodec == CodecStore \/ CodecLoad \/ CodecReload

SpecCodec == InitCodec /\ [][NextCodec]_vars

(***************************************************************************)
(* The validator, applied to one candidate at a time.                      *)
(***************************************************************************)
Candidates ==
    {SslConfigRow(o, ca, cert, key, pass) :
        o \in OptTexts(MaxOptLex),
        ca \in {"", "/pki/ok.pem", "/pki/gone.pem"},
        cert \in Paths, key \in Paths,
        pass \in {<<>>, LongPass, TooLongPass}}

InitValidate ==
    /\ InitStoreIdle /\ InitCallersIdle /\ InitCodecIdle
    /\ cand \in Candidates
    /\ verdict = [op |-> "none"]

Validate ==
    /\ verdict.op = "none"
    /\ verdict' = [op |-> "clean", result |-> clean(cand)]
    /\ UNCHANGED <<records, bindings, ret, pc, req, cval, cres, cand>>

\* The candidate is exported as it stands, validated or not.
Export ==
    /\ verdict.op = "none"
    /\ verdict' = [op |-> "export", result |-> to_ssl_config(cand)]
    /\ UNCHANGED <<records, bindings, ret, pc, req, cval, cres, cand>>

NextValidate == Validate \/ Export

SpecValidate == InitValidate /\ [][NextValidate]_vars

(***************************************************************************)
(* HostnamePortSslConfig: keys, the table and its primary key.             *)
(***************************************************************************)
UrlMixed == <<"H", "T", "T", "P", "S", ":", "/", "/", "E", "x", "a", "m", "p", "l", "e", ".", "C", "O", "M", ":", "8", "4", "4", "3", "/", "p", "a", "t", "h">>

UrlLower == <<"h", "t", "t", "p", "s", ":", "/", "/", "e", "x", "a", "m", "p", "l", "e", ".", "c", "o", "m", ":", "8", "4", "4", "3">>

UrlOther == <<"h", "t", "t", "p", ":", "/", "/", "b", ".", "o", "r", "g", "/", "x">>

KeyExample == <<"e", "x", "a", "m", "p", "l", "e", ".", "c", "o", "m", ":", "8", "4", "4", "3">>

KeyOther == <<"b", ".", "o", "r", "g">>

KeyUpper == <<"E", "x", "a", "m", "p", "l", "e", ".", "C", "O", "M">>

Urls == {UrlMixed, UrlLower, UrlOther}

FormKeys == {KeyExample, KeyOther, KeyUpper}

UpperCase == <<"A", "B", "C", "D", "E", "F", "G", "H", "I", "J", "K", "L", "M", "N", "O", "P", "Q", "R", "S", "T", "U", "V", "W", "X", "Y", "Z">>

LowerCase == <<"a", "b", "c", "d", "e", "f", "g", "h", "i", "j", "k", "l", "m", "n", "o", "p", "q", "r", "s", "t", "u", "v", "w", "x", "y", "z">>

\* str.lower(), one character
LowerChar(c) ==
    LET at == {i \in 1..Len(UpperCase) : UpperCase[i] = c}
    IN  IF at = {} THEN c ELSE LowerCase[CHOOSE i \in at : TRUE]

\* str.lower()
Lower(s) == [i \in 1..Len(s) |-> LowerChar(s[i])]

\* Where text p first occurs in s, 0 when it does not.
Find(s, p) ==
    LET hits == {i \in 1..(Len(s) - Len(p) + 1) : SubSeq(s, i, i + Len(p) - 1) = p}
    IN  IF hits = {} THEN 0 ELSE CHOOSE i \in hits : \A j \in hits : i <= j

\* utils.hostname_port (exchange/pki/utils.py, not part of the sources at
\* hand): the hostname[:port] of the URL, lowercased.
hostname_port(url) ==
    LET at == Find(url, <<":", "/", "/">>)
        rest == IF at = 0 THEN url ELSE SubSeq(url, at + 3, Len(url))
        slash == Find(rest, <<"/">>)
        netloc == IF slash = 0 THEN rest ELSE SubSeq(rest, 1, slash - 1)
    IN  Lower(netloc)

NullRef == 0

Binding(hk, cfg) == [hostname_port |-> hk, ssl_config |-> cfg]

RowsWithPk(tbl, pk) == {i \in DOMAIN tbl : tbl[i].hostname_port = pk}

\* INSERT into a table that has no primary key constraint.
DbInsertNoPk(tbl, row) == [ok |-> TRUE, tbl |-> Append(tbl, row)]

\* INSERT: hostname_port is the primary key, a second row with the same key
\* is refused by the store.
DbInsert(tbl, row) ==
    IF RowsWithPk(tbl, row.hostname_port) # {}
    THEN [ok |-> FALSE, tbl |-> tbl]
    ELSE [ok |-> TRUE, tbl |-> Append(tbl, row)]

\* UPDATE ... WHERE hostname_port = pk
DbUpdate(tbl, row) ==
    [i \in DOMAIN tbl |->
        IF tbl[i].hostname_port = row.hostname_port THEN row ELSE tbl[i]]

\* Model.save(): UPDATE by primary key, INSERT when no row was updated.
ModelSave(tbl, row) ==
    IF RowsWithPk(tbl, row.hostname_port) # {}
    THEN [ok |-> TRUE, tbl |-> DbUpdate(tbl, row)]
    ELSE DbInsert(tbl, row)

\* Manager.get(hostname_port=pk)
ManagerGet(tbl, pk) ==
    LET hits == RowsWithPk(tbl, pk)
    IN  IF hits = {} THEN [found |-> FALSE, exc |-> "DoesNotExist"]
        ELSE IF Cardinality(hits) > 1
        THEN [found |-> FALSE, exc |-> "MultipleObjectsReturned"]
        ELSE [found |-> TRUE, row |-> tbl[CHOOSE i \in hits : TRUE]]

\* resolve(url): the binding of the URL's key, if there is one.
Resolve(tbl, url) == ManagerGet(tbl, hostname_port(url))

HostKeys(tbl) == {tbl[i].hostname_port : i \in DOMAIN tbl}

\* HostnamePortSslConfig.clean() that accepts every key.
BindingCleanAcceptsAll(row) == Raise(NoMsgs)

\* HostnamePortSslConfig.clean()
BindingClean(row) ==
    IF Lower(row.hostname_port) # row.hostname_port
    THEN Raise(Put(NoMsgs, "hostname_port",
                   [text |-> "Hostname must be all lowercase.", arg |-> <<>>]))
    ELSE Raise(NoMsgs)

\* The upsert that leaves an existing binding's configuration as it is.
create_hostnameportsslconfig_keeps_old(tbl, url, ssl_config) ==
    LET hk == hostname_port(url)
        got == ManagerGet(tbl, hk)
    IN  IF got.found
        THEN [ok |-> TRUE, branch |-> "update", tbl |-> tbl,
              old |-> got.row.ssl_config, value |-> got.row]
        ELSE LET c == DbInsert(tbl, Binding(hk, ssl_config))
             IN  [ok |-> c.ok, branch |-> "create", tbl |-> c.tbl,
                  old |-> NullRef, value |-> Binding(hk, ssl_config)]

\* HostnamePortSslConfigManager.create_hostnameportsslconfig, as one call
\* that nothing interleaves with.
create_hostnameportsslconfig(tbl, url, ssl_config) ==
    LET hk == hostname_port(url)
        got == ManagerGet(tbl, hk)
    IN  IF got.found
        THEN LET inst == [got.row EXCEPT !.ssl_config = ssl_config]
                 sv == ModelSave(tbl, inst)
             IN  [ok |-> sv.ok, branch |-> "update", tbl |-> sv.tbl,
                  old |-> got.row.ssl_config, value |-> inst]
        ELSE LET c == DbInsert(tbl, Binding(hk, ssl_config))
             IN  [ok |-> c.ok, branch |-> "create", tbl |-> c.tbl,
                  old |-> NullRef, value |-> Binding(hk, ssl_config)]

\* ForeignKey(SslConfig, null=True) with no on_delete: deleting the record
\* deletes the rows that reference it.
DeleteCascade(tbl, id) == SelectSeq(tbl, LAMBDA row : row.ssl_config # id)

(***************************************************************************)
(* SslConfig rows: the admin form and the table.                           *)
(***************************************************************************)
RecPlain == SslConfigRow(<<"OP_NO_SSLv2">>, "", "", "", <<>>)

RecClient ==
    SslConfigRow(<<>>, "/pki/ok.pem", "/pki/ok.pem", "/pki/ok.pem", <<"a">>)

RecNoKey == SslConfigRow(<<>>, "", "/pki/ok.pem", "", <<>>)

RecLongPass == SslConfigRow(<<>>, "", "", "", TooLongPass)

FormRecords == {RecPlain, RecClient, RecNoKey, RecLongPass}

RecIds == 1..MaxRecords

\* Model.clean_fields(): every field's value goes through its to_python.
CleanFields(r) ==
    [r EXCEPT !.client_key_pass = to_python(PyStr(r.client_key_pass)).s]

\* The row as the table holds it: the password column in its stored form.
ToRow(r) ==
    [r EXCEPT !.client_key_pass =
        get_db_prep_value(PyStr(r.client_key_pass), FALSE).v.s]

\* The instance loaded from a row.
FromRow(row) ==
    [row EXCEPT !.client_key_pass = from_db_value(PyStr(row.client_key_pass)).s]

Refs == {NullRef} \cup {i \in RecIds : records[i] # NoRow}

(***************************************************************************)
(* The handlers, one call at a time.                                       *)
(***************************************************************************)
callersIdle == UNCHANGED <<pc, req, cval, cres, cand, verdict>>

\* Admin add/change form of SslConfig: full_clean(), then save().
AdminSaveRecord(id, r) ==
    LET inst == CleanFields(r)
        v == clean(inst)
    IN  /\ IF v.ok
           THEN records' = [records EXCEPT ![id] = ToRow(inst)]
           ELSE UNCHANGED records
        /\ ret' = [op |-> "save_record", ok |-> v.ok, validated |-> TRUE,
                   committed |-> v.ok]
        /\ UNCHANGED bindings
        /\ callersIdle

\* Admin delete of an SslConfig.
AdminDeleteRecord(id) ==
    /\ records[id] # NoRow
    /\ records' = [records EXCEPT ![id] = NoRow]
    /\ bindings' = DeleteCascade(bindings, id)
    /\ ret' = [op |-> "delete_record", ok |-> TRUE, validated |-> FALSE,
               committed |-> TRUE]
    /\ callersIdle

\* Admin add form of HostnamePortSslConfig: full_clean() (clean() and the
\* uniqueness check), then save().
AdminAddBinding(hk, cfg) ==
    LET row == Binding(hk, cfg)
        v == BindingClean(row)
        fresh == RowsWithPk(bindings, hk) = {}
        sv == ModelSave(bindings, row)
        good == v.ok /\ fresh /\ sv.ok
    IN  /\ cfg \in Refs
        /\ bindings' = IF good THEN sv.tbl ELSE bindings
        /\ ret' = [op |-> "add_binding", ok |-> good, validated |-> TRUE,
                   committed |-> good]
        /\ UNCHANGED records
        /\ callersIdle

\* Admin change form of HostnamePortSslConfig: another ssl_config is chosen.
AdminChangeBinding(i, cfg) ==
    LET row == [bindings[i] EXCEPT !.ssl_config = cfg]
        v == BindingClean(row)
        sv == ModelSave(bindings, row)
        good == v.ok /\ sv.ok
    IN  /\ i \in DOMAIN bindings
        /\ cfg \in Refs
        /\ bindings' = IF good THEN sv.tbl ELSE bindings
        /\ ret' = [op |-> "change_binding", ok |-> good, validated |-> TRUE,
                   committed |-> good]
        /\ UNCHANGED records
        /\ callersIdle

\* objects.create_hostnameportsslconfig(url, ssl_config): no clean() and no
\* full_clean() is called on the way to save() or create().
Upsert(url, cfg) ==
    LET u == create_hostnameportsslconfig(bindings, url, cfg)
    IN  /\ cfg \in Refs
        /\ bindings' = u.tbl
        /\ ret' = [op |-> "upsert", ok |-> u.ok, validated |-> FALSE,
                   committed |-> u.ok, url |-> url, cfg |-> cfg,
                   branch |-> u.branch, old |-> u.old, value |-> u.value]
        /\ UNCHANGED records
        /\ callersIdle

Init == InitStoreIdle /\ InitCallersIdle /\ InitCodecIdle /\ InitValidatorIdle

Next ==
    \/ \E id \in RecIds, r \in FormRecords : AdminSaveRecord(id, r)
    \/ \E id \in RecIds : AdminDeleteRecord(id)
    \/ \E hk \in FormKeys, cfg \in {NullRef} \cup RecIds : AdminAddBinding(hk, cfg)
    \/ \E i \in 1..Len(bindings), cfg \in {NullRef} \cup RecIds :
           AdminChangeBinding(i, cfg)
    \/ \E url \in Urls, cfg \in {NullRef} \cup RecIds : Upsert(url, cfg)

Spec == Init /\ [][Next]_vars

(***************************************************************************)
(* Two callers of create_hostnameportsslconfig whose queries interleave:   *)
(* the method runs get(), then save() or create(), with no transaction     *)
(* and no lock around them.                                                *)
(***************************************************************************)
Callers == {1, 2}

NoReq == [t |-> "none"]

storeIdle == UNCHANGED <<records, ret, cval, cres, cand, verdict>>

InitConc ==
    /\ records = [i \in RecIds |-> ToRow(RecPlain)]
    /\ bindings = <<>>
    /\ ret = [op |-> "none"]
    /\ InitCallersIdle /\ InitCodecIdle /\ InitValidatorIdle

\* self.get(hostname_port=filter_hostname_port(url))
ConcLookup(p, url, cfg) ==
    LET got == ManagerGet(bindings, hostname_port(url))
    IN  /\ pc[p] = "idle"
        /\ req' = [req EXCEPT ![p] =
                      [url |-> url, cfg |-> cfg,
                       inst |-> IF got.found THEN got.row ELSE NoReq]]
        /\ pc' = [pc EXCEPT ![p] =
                     IF got.found THEN "save"
                     ELSE IF got.exc = "DoesNotExist" THEN "create"
                     ELSE "failed"]
        /\ UNCHANGED bindings
        /\ storeIdle

\* service_hostnameportsslconfig.ssl_config = ssl_config; .save()
ConcSave(p) ==
    LET sv == ModelSave(bindings, [req[p].inst EXCEPT !.ssl_config = req[p].cfg])
    IN  /\ pc[p] = "save"
        /\ bindings' = sv.tbl
        /\ pc' = [pc EXCEPT ![p] = IF sv.ok THEN "done" ELSE "failed"]
        /\ UNCHANGED req
        /\ storeIdle

\* self.create(hostname_port=filter_hostname_port(url), ssl_config=ssl_config)
ConcCreate(p) ==
    LET c == DbInsert(bindings, Binding(hostname_port(req[p].url), req[p].cfg))
    IN  /\ pc[p] = "create"
        /\ bindings' = c.tbl
        /\ pc' = [pc EXCEPT ![p] = IF c.ok THEN "done" ELSE "failed"]
        /\ UNCHANGED req
        /\ storeIdle

\* The call is over (returned, or raised); the caller may call again.
ConcReturn(p) ==
    /\ pc[p] \in {"done", "failed"}
    /\ pc' = [pc EXCEPT ![p] = "idle"]
    /\ req' = [req EXCEPT ![p] = NoReq]
    /\ UNCHANGED bindings
    /\ storeIdle

NextConc ==
    \/ \E p \in Callers, url \in Urls, cfg \in {NullRef} \cup RecIds :
           ConcLookup(p, url, cfg)
    \/ \E p \in Callers : ConcSave(p)
    \/ \E p \in Callers : ConcCreate(p)
    \/ \E p \in Callers : ConcReturn(p)

SpecConc == InitConc /\ [][NextConc]_vars

(***************************************************************************)
(* Properties.                                                             *)
(***************************************************************************)

\* C1: every upsert leaves the binding that its URL resolves to referencing
\* the config it was given, returns that binding, and leaves the bindings of
\* every other host key as they were; so after any sequence of upserts a key
\* resolves to the config of the most recent upsert on it.
C1_UpsertLastWins ==
    [][ret'.op = "upsert" =>
          LET r == Resolve(bindings', ret'.url)
          IN  /\ ret'.ok
              /\ r.found
              /\ r.row.ssl_config = ret'.cfg
              /\ ret'.value = r.row
              /\ \A i \in DOMAIN bindings :
                    bindings[i].hostname_port # hostname_port(ret'.url)
                        => /\ i \in DOMAIN bindings'
                           /\ bindings'[i] = bindings[i]]_vars

\* C1 witness: an upsert replaced one record's reference by another's.
C1_Witness ==
    /\ ret.op = "upsert"
    /\ ret.branch = "update"
    /\ ret.old # NullRef /\ ret.cfg # NullRef /\ ret.old # ret.cfg
    /\ Resolve(bindings, ret.url).row.ssl_config = ret.cfg

\* C2: no two rows of the binding table have the same host key, and once an
\* upsert is over exactly one row has the host key of its URL.
C2_OneBindingPerKey ==
    /\ \A i, j \in DOMAIN bindings :
          bindings[i].hostname_port = bindings[j].hostname_port => i = j
    /\ \A p \in Callers :
          pc[p] \in {"done", "failed"} =>
              Cardinality(RowsWithPk(bindings, hostname_port(req[p].url))) = 1

\* C2 witness: two upserts with the same URL and config are over and the
\* table holds one row.
C2_Witness ==
    /\ pc[1] = "done" /\ pc[2] = "done"
    /\ req[1].url = req[2].url /\ req[1].cfg = req[2].cfg
    /\ Len(bindings) = 1

\* C3: of two interleaved upserts on one host key neither fails, and when
\* both are over the key has exactly one binding, holding the config of one
\* of the two.
C3_BothComplete ==
    /\ \A p \in Callers : pc[p] # "failed"
    /\ (/\ pc[1] = "done" /\ pc[2] = "done"
        /\ hostname_port(req[1].url) = hostname_port(req[2].url))
       => LET hits == RowsWithPk(bindings, hostname_port(req[1].url))
          IN  /\ Cardinality(hits) = 1
              /\ \A i \in hits :
                    bindings[i].ssl_config \in {req[1].cfg, req[2].cfg}

\* C4: every committed create or update was validated first, on the admin
\* form and on the upsert alike, and every stored record and binding passes
\* its validator.
C4_ValidatedBeforeCommit ==
    /\ (ret.op \in {"save_record", "add_binding", "change_binding", "upsert"}
        /\ ret.committed) => ret.validated
    /\ \A id \in RecIds :
          records[id] # NoRow => clean(FromRow(records[id])).ok
    /\ \A i \in DOMAIN bindings : BindingClean(bindings[i]).ok

\* C5: no step removes a binding: a host key bound before a step is bound
\* after it, so deleting a referenced record is blocked or nulls the
\* reference.
C5_NoImplicitDelete ==
    [][HostKeys(bindings) \subseteq HostKeys(bindings')]_vars

C7_WriteEncryptsPlaintext ==
    cres.op = "store" =>
        /\ ~cres.raised
        /\ IF cval = PyNone \/ cval = PyStr(<<>>)
           THEN cres.stored = cval
           ELSE /\ cres.stored = PyStr(prefix \o Encrypt(cval.s))
                /\ cres.stored # cval

\* C8: a secret written to the column and read back is the secret.
C8_RoundTrip ==
    (cres.op = "store" /\ cval.t = "str") => cres.loaded = cval

\* C9: reading a value that is not text, or text without the marker, gives
\* the value; reading marked text gives the plaintext when the text after the
\* marker is a token of the codec, and that text itself when it is not.
C9_ReadFallsBack ==
    cres.op = "load" =>
        IF cval.t # "str" THEN cres.loaded = cval
        ELSE IF ~StartsWith(cval.s, prefix) THEN cres.loaded = cval
        ELSE LET raw == DropPrefix(cval.s, prefix)
                 plain == {q \in Texts(Len(raw)) : Encrypt(q) = raw}
             IN  IF plain = {} THEN cres.loaded = PyStr(raw)
                 ELSE \A q \in plain : cres.loaded = PyStr(q)

\* C9 witness: marked text that is no token was read as the text after the
\* marker.
C9_Witness ==
    /\ cres.op = "load"
    /\ cval = PyStr(<<"_", "_", "_", "a", "_">>)
    /\ cres.loaded = PyStr(<<"a", "_">>)

\* The places where an option entry may start or end.
Cuts(o) == {0, Len(o) + 1} \cup {i \in 1..Len(o) : o[i] = ","}

\* Some comma-separated entry of the options text, spaces aside, is neither
\* empty nor the name of an option the ssl module has.
UnknownFlag(o) ==
    \E a \in Cuts(o), b \in Cuts(o) :
        /\ a < b
        /\ \A k \in (a + 1)..(b - 1) : o[k] # ","
        /\ LET names == {k \in (a + 1)..(b - 1) : o[k] # " "}
           IN  /\ names # {}
               /\ ~(Cardinality(names) = 1 /\ \A k \in names : o[k] \in ssl_op_opts)

Unreadable(f) == f # "" /\ f \notin (PathExists \cap PathIsFile \cap PathAccessR)

\* The fields whose rule the candidate violates.
ViolatedFields(r) ==
    {f \in {"ssl_options"} : UnknownFlag(r.ssl_options)}
    \cup {f \in {"ca_custom_certs", "client_cert", "client_key"} : Unreadable(r[f])}
    \cup {f \in {"client_key"} : r.client_cert # "" /\ r.client_key = ""}
    \cup {f \in {"client_cert"} : r.client_key # "" /\ r.client_cert = ""}
    \cup {f \in {"client_key_pass"} : Len(r.client_key_pass) > PassLimit}

\* C10: clean() answers valid exactly when no rule is violated, and otherwise
\* reports every field whose rule is violated, all together; a candidate
\* whose only violation is a client cert without a client key yields exactly
\* the client_key entry with its message, and the opposite direction yields
\* its own message under client_cert.
C10_CollectsAll ==
    verdict.op = "clean" =>
        LET res == verdict.result
            want == ViolatedFields(cand)
        IN  /\ res.ok <=> want = {}
            /\ DOMAIN res.errors = want
            /\ (cand.client_cert # "" /\ cand.client_key = "") =>
                  res.errors["client_key"] = MsgKey
            /\ (cand.client_cert # "" /\ cand.client_key = ""
                /\ want = {"client_key"}) =>
                  res = [ok |-> FALSE, errors |-> [client_key |-> MsgKey]]
            /\ (cand.client_key # "" /\ cand.client_cert = "") =>
                  res.errors["client_cert"] = MsgCert

\* C10 witness: three rules were violated at once and all three reported.
C10_Witness ==
    /\ verdict.op = "clean"
    /\ DOMAIN verdict.result.errors = {"ssl_options", "client_key", "client_key_pass"}

\* The pieces of the options text between two neighbouring commas (or an
\* end of the text), spaces removed, the empty pieces left out.
Configured(o) ==
    {SelectSeq(SubSeq(o, a + 1, b - 1), LAMBDA c : c # " ") :
        <<a, b>> \in {w \in Cuts(o) \X Cuts(o) :
                         /\ w[1] < w[2]
                         /\ \A k \in (w[1] + 1)..(w[2] - 1) : o[k] # ","}}
    \ {<<>>}

SupportedFlags == {<<n>> : n \in ssl_op_opts}

Items(list) == {list[i] : i \in DOMAIN list}

C12_ReadIdempotent ==
    cres.op = "reload" => cres.again = cres.loaded

====
